---- MODULE Spec2Model ----
(***************************************************************************)
(* Real-time synchronisation layer of SolSniperPro.                        *)
(*                                                                         *)
(*   - Client Sync Agent      frontend/src/hooks/useWebSocket.ts           *)
(*   - Domain caches          frontend/src/stores/{token,trade}Store.ts,   *)
(*                            strategyStore (unnamed/part_018)             *)
(*   - Optimistic mutations   frontend/src/hooks/useStrategies.ts          *)
(*   - Event Gateway          mock-api-server.js                           *)
(*                                                                         *)
(* The browser's WebSocket objects and timers are modelled as two small    *)
(* pools of slots.  A slot is recycled once the object it held can no      *)
(* longer produce an event and is no longer referenced by the hook's refs  *)
(* (a fired or cleared timer leaves reconnectTimeout.current holding a     *)
(* stale handle, StaleHandle).                                             *)
(***************************************************************************)
EXTENDS Integers, Sequences, FiniteSets, TLC

\* ---------------------------------------------------------------- bounds
MaxSockets == 3       \* WebSocket objects alive at the same time
MaxTimers == 2        \* reconnect timers pending at the same time
MaxCache == 2         \* entries in the four domain caches together
MaxInFlight == 2      \* optimistic mutations in flight
MaxConns == 3         \* gateway connections
MaxCloses == 3        \* close events counted in SpecForced
MaxSent == 2          \* messages the agent sends on one transport
MaxStrategies == 3    \* entries of the mock API's strategies array

\* ------------------------------------------------------------- constants
NullRef == 0          \* a ref holding null
StaleHandle == -1     \* a timer handle whose timer has fired or was cleared
NoToken == "null"     \* useAuthStore().token === null
Tokens == {"jwt"}
SockIds == 1..MaxSockets
TimerIds == 1..MaxTimers
Keys == {"k1", "k2"}

VARIABLES
  \* ---- useAuthStore / hook options
  token,            \* auth token seen by the hook's current render
  autoReconnect,    \* option autoReconnect of this hook instance
  topics,           \* option topics of this hook instance
  seen,             \* the hook's state and stores as its last render saw them
  \* ---- useWebSocket
  wsCurrent,        \* ws.current: NullRef or a socket slot
  socks,            \* socket slot -> [state, tok, sent]
  timers,           \* timer slot -> "free" or the token captured by its callback
  reconnectTimeout, \* reconnectTimeout.current: NullRef, StaleHandle or a timer slot
  isConnected,
  lastMessage,
  \* ---- domain caches (zustand stores)
  tokens, trades, positions, strategies,
  emitted,          \* toasts emitted by the last step
  \* ---- react-query mutations of useToggleStrategy in flight
  inflight,
  rendered,         \* the Strategies page: [mounted, data], data the query's strategies
  \* ---- event gateway (mock-api-server.js)
  conns,            \* connection id -> [state, interval]
  reply,            \* frames the gateway sent in the last step
  \* ---- REST routes of mock-api-server.js
  mockStrategies,   \* the strategies array: entries [id, is_active]
  closedPositions,  \* the Set of closed position ids
  response,         \* the response to the last request
  okCloses,         \* position id -> number of 200 responses to its close requests
  \* ---- history
  last,             \* the last operation and its arguments
  disc,             \* disconnect() was called and connect() was not called since
  cnt               \* counters of SpecForced

agentVars == <<wsCurrent, socks, timers, reconnectTimeout, isConnected, lastMessage>>
cacheVars == <<tokens, trades, positions, strategies, emitted>>
optVars == <<token, autoReconnect, topics, seen>>
rqVars == <<inflight, rendered>>
apiVars == <<mockStrategies, closedPositions, response, okCloses>>
gwVars == <<conns, reply, apiVars>>
vars == <<token, autoReconnect, topics, seen, wsCurrent, socks, timers, reconnectTimeout,
          isConnected, lastMessage, tokens, trades, positions, strategies,
          emitted, inflight, rendered, conns, reply, mockStrategies, closedPositions,
          response, okCloses, last, disc, cnt>>

\* =================================================================
\* Client Sync Agent: useWebSocket
\* =================================================================

FreeSock == [state |-> "FREE", tok |-> NoToken, sent |-> <<>>]

\* The hook's mutable state as one value, so that handlers compose.
Agent ==
  [cur |-> wsCurrent, socks |-> socks, timers |-> timers,
   rt |-> reconnectTimeout, isConnected |-> isConnected,
   lastMessage |-> lastMessage]

SetAgent(A) ==
  /\ wsCurrent' = A.cur
  /\ socks' = A.socks
  /\ timers' = A.timers
  /\ reconnectTimeout' = A.rt
  /\ isConnected' = A.isConnected
  /\ lastMessage' = A.lastMessage

Min(S) == CHOOSE x \in S : \A y \in S : x <= y

FreeSocks(A) == {i \in SockIds : A.socks[i].state = "FREE"}
FreeTimers(A) == {t \in TimerIds : A.timers[t] = "free"}
PendingTimers(A) == {t \in TimerIds : A.timers[t] # "free"}
LiveSocks(A) == {i \in SockIds : A.socks[i].state \in {"CONNECTING", "OPEN"}}

\* WebSocket.close(): CONNECTING/OPEN -> CLOSING, the close event follows
\* later; on a CLOSING or CLOSED socket it does nothing.
SocketCloseCall(A, i) ==
  IF A.socks[i].state \in {"CONNECTING", "OPEN"}
  THEN [A EXCEPT !.socks[i].state = "CLOSING"]
  ELSE A

\* ws.current is overwritten: a CLOSED socket nothing refers to is gone.
DropRef(A) ==
  IF A.cur # NullRef /\ A.socks[A.cur].state = "CLOSED"
  THEN [A EXCEPT !.socks[A.cur] = FreeSock, !.cur = NullRef]
  ELSE [A EXCEPT !.cur = NullRef]

\* WebSocket.send(): queued on an OPEN socket, dropped on a CLOSING or
\* CLOSED one.
SocketSend(A, i, m) ==
  IF i # NullRef /\ A.socks[i].state = "OPEN"
  THEN [A EXCEPT !.socks[i].sent = Append(@, m)]
  ELSE A

\* setTimeout(() => connect(), reconnectInterval) in onclose, with the
\* handle stored in reconnectTimeout.current.
SetReconnectTimeout(A, tok) ==
  IF FreeTimers(A) = {} THEN A
  ELSE LET t == Min(FreeTimers(A))
       IN [A EXCEPT !.timers[t] = tok, !.rt = t]

\* (mutant) a connect() without the test for the token
connect_NoGuard(A, tok) ==
  LET B == IF A.cur # NullRef THEN SocketCloseCall(A, A.cur) ELSE A
      C == DropRef(B)
  IN IF FreeSocks(C) = {} THEN A
     ELSE [C EXCEPT !.socks[Min(FreeSocks(C))] =
                       [state |-> "CONNECTING", tok |-> tok, sent |-> <<>>],
                    !.cur = Min(FreeSocks(C))]

\* connect(), useWebSocket.ts 36-100, as created by a render that saw `tok`.
connect(A, tok) ==
  IF tok = NoToken THEN A
  ELSE LET B == IF A.cur # NullRef THEN SocketCloseCall(A, A.cur) ELSE A
           C == DropRef(B)
           n == Min(FreeSocks(C))
       IN [C EXCEPT !.socks[n] = [state |-> "CONNECTING", tok |-> tok, sent |-> <<>>],
                    !.cur = n]

\* the guard under which connect(A, tok) finds a slot for its new socket
CanConnect(A, tok) ==
  tok = NoToken \/ FreeSocks(DropRef(A)) # {}

\* disconnect(), useWebSocket.ts 170-179
disconnect(A) ==
  LET B == IF A.rt \in TimerIds
           THEN [A EXCEPT !.timers[A.rt] = "free", !.rt = StaleHandle]
           ELSE A
      C == IF B.cur # NullRef THEN DropRef(SocketCloseCall(B, B.cur)) ELSE B
  IN [C EXCEPT !.isConnected = FALSE]

SubscribeMsg(ts) == [type |-> "subscribe", topics |-> ts]
UnsubscribeMsg(ts) == [type |-> "unsubscribe", topics |-> ts]

\* (mutant) an open handler that subscribes to nothing
onopen_NoSubscribe(A, i, ts) ==
  [A EXCEPT !.socks[i].state = "OPEN", !.isConnected = TRUE]

\* ws.onopen, useWebSocket.ts 51-62; `ts` is the topics option
onopen(A, i, ts) ==
  LET B == [A EXCEPT !.socks[i].state = "OPEN", !.isConnected = TRUE]
  IN SocketSend(B, B.cur, SubscribeMsg(ts))

\* (mutant) a subscribe that does not look at readyState
subscribe_NoGuard(A, ts) ==
  IF A.cur # NullRef
  THEN [A EXCEPT !.socks[A.cur].sent = Append(@, SubscribeMsg(ts))]
  ELSE A

\* subscribe(newTopics), useWebSocket.ts 181-190
subscribe(A, ts) ==
  IF A.cur # NullRef /\ A.socks[A.cur].state = "OPEN"
  THEN SocketSend(A, A.cur, SubscribeMsg(ts))
  ELSE A

\* unsubscribe(topicsToRemove), useWebSocket.ts 192-201
unsubscribe(A, ts) ==
  IF A.cur # NullRef /\ A.socks[A.cur].state = "OPEN"
  THEN SocketSend(A, A.cur, UnsubscribeMsg(ts))
  ELSE A

\* (mutant) an error handler that schedules a reconnect of its own
onerror_Reconnects(A, i) == SetReconnectTimeout(A, A.socks[i].tok)

\* ws.onerror, useWebSocket.ts 81-83: logs only
onerror(A, i) == A

\* whether onclose schedules a reconnect, useWebSocket.ts 90
ShouldReconnect(auto, tok) == auto /\ tok # NoToken

\* ws.onclose, useWebSocket.ts 85-96; `tok` is the token captured by the
\* connect() that created the socket.
onclose(A, i, auto) ==
  LET tok == A.socks[i].tok
      B == [A EXCEPT !.socks[i] = IF A.cur = i
                                  THEN [A.socks[i] EXCEPT !.state = "CLOSED"]
                                  ELSE FreeSock,
                     !.isConnected = FALSE]
  IN IF ShouldReconnect(auto, tok) THEN SetReconnectTimeout(B, tok) ELSE B

\* (mutant) a timer callback that logs and does not call connect()
onTimer_NoConnect(A, t) ==
  [A EXCEPT !.timers[t] = "free",
            !.rt = IF A.rt = t THEN StaleHandle ELSE A.rt]

\* the reconnect timer's callback, useWebSocket.ts 91-94
onTimer(A, t) ==
  LET tok == A.timers[t]
      B == [A EXCEPT !.timers[t] = "free",
                     !.rt = IF A.rt = t THEN StaleHandle ELSE A.rt]
  IN connect(B, tok)

\* =================================================================
\* Domain caches: tokenStore, tradeStore, strategyStore
\* (selectedToken/selectedTrade/selectedPosition/selectedStrategy stay null:
\* nothing modelled here selects an entity, so the stores' updates of the
\* selection leave it null.)
\* =================================================================


\* { ...entity, ...updates }
Merge(e, u) ==
  [f \in (DOMAIN e) \cup (DOMAIN u) |-> IF f \in DOMAIN u THEN u[f] ELSE e[f]]

\* [entity, ...state.list]
AddFront(list, e) == <<e>> \o list

\* (mutant) an update that inserts the entity when no entry has the key
UpdateBy_Upsert(list, key, k, u) ==
  IF \E j \in DOMAIN list : list[j][key] = k
  THEN [j \in DOMAIN list |-> IF list[j][key] = k THEN Merge(list[j], u) ELSE list[j]]
  ELSE Append(list, Merge([f \in {key} |-> k], u))

\* state.list.map((x) => x[key] === k ? { ...x, ...updates } : x)
UpdateBy(list, key, k, u) ==
  [j \in DOMAIN list |-> IF list[j][key] = k THEN Merge(list[j], u) ELSE list[j]]

\* state.list.filter((x) => x[key] !== k)
RemoveBy(list, key, k) ==
  LET Keep(x) == x[key] # k IN SelectSeq(list, Keep)

\* Array.prototype.sort((a, b) => b.priority - a.priority): stable, by
\* descending priority (insertion into the sorted prefix).
\* (mutant) an unstable sort: an entry goes before the entries of its own
\* priority
RECURSIVE InsertByPriority_Unstable(_, _)
InsertByPriority_Unstable(sorted, e) ==
  IF sorted = <<>> THEN <<e>>
  ELSE IF Head(sorted).priority > e.priority
       THEN <<Head(sorted)>> \o InsertByPriority_Unstable(Tail(sorted), e)
       ELSE <<e>> \o sorted

RECURSIVE InsertByPriority(_, _)
InsertByPriority(sorted, e) ==
  IF sorted = <<>> THEN <<e>>
  ELSE IF Head(sorted).priority >= e.priority
       THEN <<Head(sorted)>> \o InsertByPriority(Tail(sorted), e)
       ELSE <<e>> \o sorted

RECURSIVE SortByPriority(_)
SortByPriority(list) ==
  IF list = <<>> THEN <<>>
  ELSE InsertByPriority(SortByPriority(SubSeq(list, 1, Len(list) - 1)),
                        list[Len(list)])

\* tokenStore.ts 42-65
setTokens(list, new) == new
addToken(list, e) == AddFront(list, e)
updateToken(list, mint, u) == UpdateBy(list, "mint", mint, u)
removeToken(list, mint) == RemoveBy(list, "mint", mint)

\* tradeStore.ts 52-75
setTrades(list, new) == new
\* (mutant) a store that appends a new trade at the tail
addTrade_Append(list, e) == Append(list, e)
addTrade(list, e) == AddFront(list, e)
updateTrade(list, id, u) == UpdateBy(list, "id", id, u)
removeTrade(list, id) == RemoveBy(list, "id", id)

\* tradeStore.ts 79-102
setPositions(list, new) == new
addPosition(list, e) == AddFront(list, e)
updatePosition(list, id, u) == UpdateBy(list, "id", id, u)
removePosition(list, id) == RemoveBy(list, "id", id)

\* strategyStore (unnamed/part_018) 28-67
setStrategies(list, new) == SortByPriority(new)
addStrategy(list, e) == SortByPriority(Append(list, e))
updateStrategy(list, id, u) == SortByPriority(UpdateBy(list, "id", id, u))
removeStrategy(list, id) == RemoveBy(list, "id", id)
\* (mutant) a toggle that forgets the id test and flips every strategy
toggleStrategy_All(list, id) ==
  [j \in DOMAIN list |-> [list[j] EXCEPT !.enabled = ~list[j].enabled]]

\* (mutant) a toggle that enables instead of flipping
toggleStrategy_Enables(list, id) ==
  [j \in DOMAIN list |->
     IF list[j].id = id THEN [list[j] EXCEPT !.enabled = TRUE] ELSE list[j]]

toggleStrategy(list, id) ==
  [j \in DOMAIN list |->
     IF list[j].id = id THEN [list[j] EXCEPT !.enabled = ~list[j].enabled]
     ELSE list[j]]

\* The four caches and the toasts of the running handler, as one value.
Caches ==
  [tokens |-> tokens, trades |-> trades, positions |-> positions,
   strategies |-> strategies, emitted |-> <<>>]

SetCaches(C) ==
  /\ tokens' = C.tokens
  /\ trades' = C.trades
  /\ positions' = C.positions
  /\ strategies' = C.strategies
  /\ emitted' = C.emitted

Toast(C, kind) == [C EXCEPT !.emitted = Append(@, kind)]

\* the events whose case reads a member of `data` before it calls a store
\* or a toast: on a message without data that read throws a TypeError
DerefsDataFirst ==
  {"token_update", "trade_failed", "position_updated", "position_closed",
   "strategy_triggered", "strategy_updated", "risk_alert", "risk_violation"}

\* handleEvent, useWebSocket.ts 102-168.  m.event is "none" for a message
\* without an event field.  The messages of the other events (new_token,
\* trade_created, trade_executed, position_opened) carry their data.  position_closed formats data.pnl_usd with
\* toFixed, which throws after removePosition when the field is missing: the
\* toast is then not emitted.
\* (mutant) a dispatcher that treats every message it receives as news for
\* the user
handleEvent_NotifiesAll(C, m) == Toast(C, "info")

handleEvent(C, m) ==
  LET e == m.event
      d == m.data
  IN IF "data" \notin DOMAIN m /\ e \in DerefsDataFirst THEN C
     ELSE
     CASE e = "new_token" ->
            Toast([C EXCEPT !.tokens = addToken(@, d)], "success")
       [] e = "token_update" ->
            [C EXCEPT !.tokens = updateToken(@, d.mint, d)]
       [] e = "trade_created" ->
            [C EXCEPT !.trades = addTrade(@, d)]
       [] e = "trade_executed" ->
            Toast([C EXCEPT !.trades = addTrade(@, d)], "success")
       [] e = "trade_failed" ->
            Toast([C EXCEPT !.trades = updateTrade(@, d.id, d)], "error")
       [] e = "position_opened" ->
            Toast([C EXCEPT !.positions = addPosition(@, d)], "success")
       [] e = "position_updated" ->
            [C EXCEPT !.positions = updatePosition(@, d.id, d)]
       [] e = "position_closed" ->
            LET D == [C EXCEPT !.positions = removePosition(@, d.id)]
            IN IF "pnl_usd" \in DOMAIN d THEN Toast(D, "success") ELSE D
       [] e = "strategy_triggered" -> Toast(C, "info")
       [] e = "strategy_updated" ->
            [C EXCEPT !.strategies = updateStrategy(@, d.id, d)]
       [] e = "risk_alert" ->
            IF d.severity = "CRITICAL" THEN Toast(C, "error")
            ELSE IF d.severity = "WARNING" THEN Toast(C, "warning")
            ELSE C
       [] e = "risk_violation" -> Toast(C, "error")
       [] OTHER -> C

\* ---- JSON text and JSON values.  A frame is [parse |-> FALSE] when
\* JSON.parse throws on its text, else [parse |-> TRUE, msg |-> text], the
\* text given by its members; a number member "n" is given by its literal.
\* JSON.parse reads a number literal as the nearest IEEE-754 double, and
\* JSON.stringify prints a double in its shortest form, so an integer
\* literal above 2^53 does not survive the round trip.
SmallLit == "1"
BigLit == "9007199254740993"
NumberLits == {SmallLit, BigLit}

ToDouble(lit) ==
  [double |-> IF lit = "9007199254740993" THEN "9007199254740992" ELSE lit]

RECURSIVE JSONparse(_)
JSONparse(text) ==
  [f \in DOMAIN text |->
     IF f = "n" THEN ToDouble(text[f])
     ELSE IF f = "data" THEN JSONparse(text[f])
     ELSE text[f]]

RECURSIVE JSONstringify(_)
JSONstringify(value) ==
  [f \in DOMAIN value |->
     IF f = "n" THEN value[f].double
     ELSE IF f = "data" THEN JSONstringify(value[f])
     ELSE value[f]]

\* ws.onmessage, useWebSocket.ts 64-79.  No onMessage callback is passed
\* (Layout.tsx 13-16).  setLastMessage runs before handleEvent; what
\* handleEvent throws is caught here and logged.
\* (mutant) a message handler that gives up the transport when it cannot
\* parse a frame
onmessage_CloseOnError(A, frame) ==
  IF frame.parse THEN [A EXCEPT !.lastMessage = JSONparse(frame.msg)]
  ELSE IF A.cur # NullRef THEN SocketCloseCall(A, A.cur) ELSE A

onmessage(A, frame) ==
  IF frame.parse THEN [A EXCEPT !.lastMessage = JSONparse(frame.msg)] ELSE A

\* whether handleEvent throws on message m (before or after a store call)
Throws(m) ==
  \/ "data" \notin DOMAIN m /\ m.event \in DerefsDataFirst
  \/ "data" \in DOMAIN m /\ m.event = "position_closed" /\ "pnl_usd" \notin DOMAIN m.data

\* a frame the handler cannot parse, or whose handling throws
BadFrame(frame) == ~frame.parse \/ Throws(JSONparse(frame.msg))

onmessageCaches(C, frame) ==
  IF frame.parse THEN handleEvent(C, JSONparse(frame.msg)) ELSE C

\* =================================================================
\* Initial state: the hook before its effect has run, empty stores, no
\* mutation in flight, no gateway connection.
\* =================================================================

NoMessage == [type |-> "null", event |-> "none"]
NoConn == [state |-> "NONE", interval |-> FALSE]
ConnIds == 1..MaxConns

\* the Strategies page (src/unnamed/part_012) is not on screen
NotMounted == [mounted |-> FALSE, data |-> <<>>]

InitState ==
  /\ token \in Tokens \cup {NoToken}
  /\ autoReconnect \in BOOLEAN
  /\ wsCurrent = NullRef
  /\ socks = [i \in SockIds |-> FreeSock]
  /\ timers = [t \in TimerIds |-> "free"]
  /\ reconnectTimeout = NullRef
  /\ isConnected = FALSE
  /\ lastMessage = NoMessage
  /\ tokens = <<>>
  /\ trades = <<>>
  /\ positions = <<>>
  /\ strategies = <<>>
  /\ emitted = <<>>
  /\ seen = [isConnected |-> FALSE, lastMessage |-> NoMessage, tokens |-> <<>>,
             trades |-> <<>>, positions |-> <<>>, strategies |-> <<>>]
  /\ inflight = <<>>
  /\ rendered \in {NotMounted, [mounted |-> TRUE, data |-> <<>>]}
  /\ conns = [c \in ConnIds |-> NoConn]
  /\ reply = <<>>
  /\ mockStrategies = <<[id |-> "strategy1", is_active |-> TRUE],
                        [id |-> "strategy2", is_active |-> TRUE]>>
  /\ closedPositions = {}
  /\ response = [status |-> 0]
  /\ okCloses = [id \in {"pos1", "pos2", "invalid_id"} |-> 0]
  /\ last = [op |-> "init"]
  /\ disc = FALSE

LayoutTopics == <<"tokens", "trades", "positions", "strategies", "risk", "metrics">>

Init ==
  /\ InitState
  /\ rendered = NotMounted
  /\ topics = LayoutTopics
  /\ cnt = [on |-> FALSE, closes |-> 0, scheds |-> 0, attempts |-> 0]

\* a logged-in user, the hook used as Layout.tsx 13-16 uses it
InitLoggedIn ==
  /\ Init
  /\ token \in Tokens
  /\ autoReconnect

\* sockets the step from A to B created
Created(A, B) ==
  {i \in SockIds : B.socks[i].state = "CONNECTING" /\ A.socks[i].state # "CONNECTING"}

\* the counters of SpecForced after a step from A to B: close events
\* delivered, reconnects scheduled, connect attempts made by timers
Counted(A, B, op) ==
  IF ~cnt.on THEN cnt
  ELSE [cnt EXCEPT
          !.closes = @ + (IF op = "close" THEN 1 ELSE 0),
          !.scheds = @ + Cardinality(PendingTimers(B) \ PendingTimers(A)),
          !.attempts = @ + (IF op = "timer" THEN Cardinality(Created(A, B)) ELSE 0)]

\* the caches stay within the bound
Fits(C) ==
  Len(C.tokens) + Len(C.trades) + Len(C.positions) + Len(C.strategies) <= MaxCache

\* =================================================================
\* Actions of the Client Sync Agent
\* =================================================================

\* connect() called by the effect (useWebSocket.ts 203-209) or by the
\* hook's user through `reconnect`
Connect ==
  /\ CanConnect(Agent, token)
  /\ SetAgent(connect(Agent, token))
  /\ disc' = FALSE
  /\ last' = [op |-> "connect"]
  /\ UNCHANGED <<optVars, cacheVars, rqVars, gwVars, cnt>>

\* disconnect() called by the effect's cleanup or by the hook's user
Disconnect ==
  /\ SetAgent(disconnect(Agent))
  /\ disc' = TRUE
  /\ last' = [op |-> "disconnect"]
  /\ UNCHANGED <<optVars, cacheVars, rqVars, gwVars, cnt>>

\* the browser reports the connection established: readyState OPEN, onopen
SocketOpen(i) ==
  /\ socks[i].state = "CONNECTING"
  /\ SetAgent(onopen(Agent, i, topics))
  /\ last' = [op |-> "open", sock |-> i]
  /\ UNCHANGED <<optVars, cacheVars, rqVars, gwVars, disc, cnt>>

\* a frame arrives on an OPEN socket (the browser delivers no message event
\* in any other readyState): onmessage
SocketMessage(i, frame) ==
  /\ socks[i].state = "OPEN"
  /\ Fits(onmessageCaches(Caches, frame))
  /\ SetAgent(onmessage(Agent, frame))
  /\ SetCaches(onmessageCaches(Caches, frame))
  /\ last' = [op |-> "message", sock |-> i, frame |-> frame]
  /\ UNCHANGED <<optVars, rqVars, gwVars, disc, cnt>>

\* the connection ends (refused, dropped by the server, or closed after a
\* close() call): readyState CLOSED, an error event when it failed
\* (withError), then the close event
SocketClose(i, withError) ==
  /\ socks[i].state \in {"CONNECTING", "OPEN", "CLOSING"}
  /\ cnt.on => cnt.closes < MaxCloses
  /\ ShouldReconnect(autoReconnect, socks[i].tok) => FreeTimers(Agent) # {}
  /\ SetAgent(onclose(IF withError THEN onerror(Agent, i) ELSE Agent,
                      i, autoReconnect))
  /\ last' = [op |-> "close", sock |-> i, withError |-> withError,
              wasCurrent |-> (wsCurrent = i)]
  /\ cnt' = Counted(Agent, onclose(IF withError THEN onerror(Agent, i) ELSE Agent,
                                   i, autoReconnect), "close")
  /\ UNCHANGED <<optVars, cacheVars, rqVars, gwVars, disc>>

\* a pending reconnect timer fires
TimerFire(t) ==
  /\ timers[t] # "free"
  /\ CanConnect(Agent, timers[t])
  /\ SetAgent(onTimer(Agent, t))
  /\ last' = [op |-> "timer", timer |-> t]
  /\ cnt' = Counted(Agent, onTimer(Agent, t), "timer")
  /\ UNCHANGED <<optVars, cacheVars, rqVars, gwVars, disc>>

\* frames used with the agent: an unparseable frame, the gateway's
\* simplified-shape messages, and two domain events
ConnectionMsg == [type |-> "connection", event |-> "none"]
NewTokenMsg(k) == [type |-> "event", event |-> "new_token", data |-> [mint |-> k]]
TradeCreatedMsg(k) ==
  [type |-> "event", event |-> "trade_created", data |-> [id |-> k, status |-> "PENDING"]]
Parsed(m) == [parse |-> TRUE, msg |-> m]
Garbage == [parse |-> FALSE]
AgentFrames ==
  {Garbage, Parsed(ConnectionMsg), Parsed(NewTokenMsg("k1")), Parsed(TradeCreatedMsg("k1"))}

NextAgent ==
  \/ Connect
  \/ Disconnect
  \/ \E i \in SockIds : SocketOpen(i)
  \/ \E i \in SockIds, f \in AgentFrames : SocketMessage(i, f)
  \/ \E i \in SockIds, e \in BOOLEAN : SocketClose(i, e)
  \/ \E t \in TimerIds : TimerFire(t)

SpecAgent == Init /\ [][NextAgent]_vars

\* ---- the agent left to itself: mounted once with a credential and
\* auto-reconnect, then only transport and timer events
Mount ==
  /\ last.op = "init"
  /\ Connect

NextLive ==
  \/ Mount
  \/ \E i \in SockIds : SocketOpen(i)
  \/ \E i \in SockIds, f \in AgentFrames : SocketMessage(i, f)
  \/ \E i \in SockIds, e \in BOOLEAN : SocketClose(i, e)
  \/ \E t \in TimerIds : TimerFire(t)

\* Timers fire; the server accepts a connection attempt sooner or later.
SpecLive ==
  /\ InitLoggedIn
  /\ [][NextLive]_vars
  /\ WF_vars(\E t \in TimerIds : TimerFire(t))
  /\ SF_vars(\E i \in SockIds : SocketOpen(i))

\* ---- the same, counting close events, scheduled reconnects and the
\* connect attempts timers make
InitForced ==
  /\ InitState
  /\ rendered = NotMounted
  /\ token \in Tokens
  /\ autoReconnect
  /\ topics = LayoutTopics
  /\ cnt = [on |-> TRUE, closes |-> 0, scheds |-> 0, attempts |-> 0]

NextForced ==
  \/ Mount
  \/ \E i \in SockIds : SocketOpen(i)
  \/ \E i \in SockIds, f \in AgentFrames : SocketMessage(i, f)
  \/ \E i \in SockIds, e \in BOOLEAN : SocketClose(i, e)
  \/ \E t \in TimerIds : TimerFire(t)

SpecForced == InitForced /\ [][NextForced]_vars

\* ---- the agent mounted once, with its user's subscribe, unsubscribe and
\* disconnect calls, and no inbound frames
CallTopics == {<<"system">>}

\* subscribe(ts) called by the hook's user
Subscribe(ts) ==
  /\ (wsCurrent # NullRef /\ socks[wsCurrent].state = "OPEN")
       => Len(socks[wsCurrent].sent) < MaxSent
  /\ SetAgent(subscribe(Agent, ts))
  /\ last' = [op |-> "subscribe", topics |-> ts]
  /\ UNCHANGED <<optVars, cacheVars, rqVars, gwVars, disc, cnt>>

\* unsubscribe(ts) called by the hook's user
Unsubscribe(ts) ==
  /\ (wsCurrent # NullRef /\ socks[wsCurrent].state = "OPEN")
       => Len(socks[wsCurrent].sent) < MaxSent
  /\ SetAgent(unsubscribe(Agent, ts))
  /\ last' = [op |-> "unsubscribe", topics |-> ts]
  /\ UNCHANGED <<optVars, cacheVars, rqVars, gwVars, disc, cnt>>

InitSession ==
  /\ InitState
  /\ rendered = NotMounted
  /\ topics \in {<<>>, LayoutTopics}
  /\ cnt = [on |-> FALSE, closes |-> 0, scheds |-> 0, attempts |-> 0]

NextSession ==
  \/ Mount
  \/ Disconnect
  \/ \E i \in SockIds : SocketOpen(i)
  \/ \E i \in SockIds, e \in BOOLEAN : SocketClose(i, e)
  \/ \E t \in TimerIds : TimerFire(t)
  \/ \E ts \in CallTopics : Subscribe(ts)
  \/ \E ts \in CallTopics : Unsubscribe(ts)

SpecSession == InitSession /\ [][NextSession]_vars

\* C16: every time a transport opens, the agent sends exactly one message
\* on it, the subscribe message listing the configured topics, and nothing
\* was sent on that transport before; no other step of the agent itself
\* (connect, disconnect, close, timer) sends anything.
C16_SubscribeOnOpen ==
  [][/\ last'.op = "open" =>
          /\ socks[last'.sock].sent = <<>>
          /\ socks'[last'.sock].sent = <<[type |-> "subscribe", topics |-> topics]>>
     /\ last'.op \in {"connect", "disconnect", "close", "timer"} =>
          \A i \in SockIds : socks'[i].sent \in {socks[i].sent, <<>>}]_vars

\* a reconnect's transport has opened and carries its subscribe message
C16_Witness ==
  /\ last.op = "open"
  /\ reconnectTimeout = StaleHandle
  /\ socks[last.sock].sent = <<[type |-> "subscribe", topics |-> LayoutTopics]>>

\* C17: connect() without a credential creates no transport, closes
\* nothing, schedules no timer and leaves the agent disconnected.
C17_NoTokenNoTransport ==
  [][(last'.op = "connect" /\ token = NoToken) =>
        /\ Agent' = Agent
        /\ ~isConnected'
        /\ wsCurrent' = NullRef]_vars

C17_Witness ==
  /\ last.op = "connect"
  /\ token = NoToken
  /\ ~disc

\* C18: subscribe()/unsubscribe() without an open transport sends nothing
\* and leaves nothing behind that a later step would send; with an open
\* transport it sends exactly one control message, that call's.
C18_DropOrSendOne ==
  [][/\ last'.op \in {"subscribe", "unsubscribe"} =>
          IF wsCurrent # NullRef /\ socks[wsCurrent].state = "OPEN"
          THEN /\ socks' = [socks EXCEPT ![wsCurrent].sent =
                               Append(@, [type |-> last'.op, topics |-> last'.topics])]
               /\ <<wsCurrent, timers, reconnectTimeout, isConnected>>' =
                    <<wsCurrent, timers, reconnectTimeout, isConnected>>
          ELSE Agent' = Agent
     /\ last'.op \notin {"subscribe", "unsubscribe"} =>
          \A i \in SockIds :
             socks'[i].sent \in {socks[i].sent, <<>>,
                                 <<[type |-> "subscribe", topics |-> topics]>>}]_vars

\* a call made while a reconnect's transport is still connecting was
\* dropped: nothing has been sent on that transport
C18_Witness ==
  /\ last.op = "unsubscribe"
  /\ reconnectTimeout = StaleHandle
  /\ wsCurrent # NullRef
  /\ socks[wsCurrent].state = "CONNECTING"
  /\ socks[wsCurrent].sent = <<>>

\* =================================================================
\* Optimistic Mutation Coordinator: useToggleStrategy
\* =================================================================

\* the flag of strategy `id` as the cache shows it
FlagStr(list, id) ==
  IF \A j \in DOMAIN list : list[j].id # id THEN "absent"
  ELSE LET j == Min({x \in DOMAIN list : list[x].id = id})
       IN IF list[j].enabled THEN "true" ELSE "false"

\* onMutate, useStrategies.ts 86-89
onMutate(C, id) == [C EXCEPT !.strategies = toggleStrategy(@, id)]

\* onSuccess, useStrategies.ts 90-92: invalidates the query (the refetch
\* arrives later, as FetchStrategies); touches no store
onSuccess(C, id) == C

\* onError, useStrategies.ts 93-97
onError(C, id) == Toast([C EXCEPT !.strategies = toggleStrategy(@, id)], "error")

\* Every mutation in flight has seen another writer of the strategies cache.
AllDirty(fl) == [j \in DOMAIN fl |-> [fl[j] EXCEPT !.dirty = TRUE]]

RemoveAt(q, j) == SubSeq(q, 1, j - 1) \o SubSeq(q, j + 1, Len(q))

\* toggleMutation.mutate({ id, enabled }): onMutate runs, the request
\* strategiesApi.toggleStrategy(id, enabled) is in flight.  `prior` records
\* the flag before the speculative change, `dirty` whether another writer
\* touched the strategies cache while the request was in flight.
Mutate(id, enabled) ==
  /\ Len(inflight) < MaxInFlight
  /\ SetCaches(onMutate(Caches, id))
  /\ UNCHANGED rendered
  /\ inflight' = Append(AllDirty(inflight),
                        [id |-> id, enabled |-> enabled,
                         prior |-> FlagStr(strategies, id), dirty |-> FALSE])
  /\ last' = [op |-> "mutate", id |-> id]
  /\ UNCHANGED <<optVars, agentVars, gwVars, disc, cnt>>

\* the request of mutation j returned 2xx
MutationSuccess(j) ==
  /\ j \in DOMAIN inflight
  /\ SetCaches(onSuccess(Caches, inflight[j].id))
  /\ inflight' = RemoveAt(inflight, j)
  /\ UNCHANGED rendered
  /\ last' = [op |-> "success", id |-> inflight[j].id, prior |-> inflight[j].prior,
              dirty |-> inflight[j].dirty]
  /\ UNCHANGED <<optVars, agentVars, gwVars, disc, cnt>>

\* the request of mutation j failed (any non-2xx: the axios interceptor
\* rejects, client.ts 42-72)
MutationFail(j) ==
  /\ j \in DOMAIN inflight
  /\ SetCaches(onError(Caches, inflight[j].id))
  /\ inflight' = AllDirty(RemoveAt(inflight, j))
  /\ UNCHANGED rendered
  /\ last' = [op |-> "rollback", id |-> inflight[j].id, prior |-> inflight[j].prior,
              dirty |-> inflight[j].dirty]
  /\ UNCHANGED <<optVars, agentVars, gwVars, disc, cnt>>

\* lists a fetch can return: entities with distinct keys
Distinct(list, key) ==
  \A a, b \in DOMAIN list : a # b => list[a][key] # list[b][key]

SeqsUpTo(S, n) == UNION {[1..k -> S] : k \in 0..n}

Priorities == {1, 2}
StrategyEntities(P) == [id : Keys, enabled : BOOLEAN, priority : P]
StrategyLists(P) ==
  {l \in SeqsUpTo(StrategyEntities(P), MaxCache) : Distinct(l, "id")}

\* useStrategies' query function, useStrategies.ts 15-21: setStrategies
FetchStrategies(list) ==
  /\ Fits([Caches EXCEPT !.strategies = list])
  /\ strategies' = setStrategies(strategies, list)
  /\ emitted' = <<>>
  /\ inflight' = AllDirty(inflight)
  /\ rendered' = [rendered EXCEPT !.data = IF rendered.mounted THEN list ELSE @]
  /\ last' = [op |-> "fetch", cache |-> "strategies"]
  /\ UNCHANGED <<optVars, agentVars, tokens, trades, positions, gwVars, disc, cnt>>

\* handleEvent on a message delivered by the agent's open socket
HandleEvent(m) ==
  /\ Fits(handleEvent(Caches, m))
  /\ SetCaches(handleEvent(Caches, m))
  /\ inflight' = IF m.event = "strategy_updated" THEN AllDirty(inflight) ELSE inflight
  /\ UNCHANGED rendered
  /\ last' = [op |-> "event", event |-> m.event]
  /\ UNCHANGED <<optVars, agentVars, gwVars, disc, cnt>>

StrategyUpdatedMsgs(D) ==
  {[type |-> "event", event |-> "strategy_updated", data |-> d] : d \in D}

NextToggle ==
  \/ \E id \in Keys, enabled \in BOOLEAN : Mutate(id, enabled)
  \/ \E j \in 1..MaxInFlight : MutationSuccess(j)
  \/ \E j \in 1..MaxInFlight : MutationFail(j)
  \/ \E list \in StrategyLists({1}) : FetchStrategies(list)
  \/ \E m \in StrategyUpdatedMsgs([id : Keys, enabled : BOOLEAN]) : HandleEvent(m)

SpecToggle == InitLoggedIn /\ [][NextToggle]_vars

\* C3: when the toggle request fails, the flag is restored to the value it
\* had immediately before the speculative change, whatever other writes
\* (fetch refresh, strategy_updated, another toggle) happened in between.
C3_RollbackRestoresPrior ==
  (last.op = "rollback" /\ last.prior # "absent") =>
     FlagStr(strategies, last.id) = last.prior

\* C4: for a strategy present in the cache and no other writer while the
\* request is in flight, a failed toggle ends with the flag at its prior
\* value and exactly one failure toast; a successful toggle emits no failure
\* toast.
C4_RollbackAndNotifyOnce ==
  /\ (last.op = "rollback" /\ ~last.dirty /\ last.prior # "absent") =>
       /\ FlagStr(strategies, last.id) = last.prior
       /\ emitted = <<"error">>
  /\ last.op = "success" => emitted = <<>>

C4_Witness ==
  /\ last.op = "rollback"
  /\ ~last.dirty
  /\ last.prior = "false"
  /\ FlagStr(strategies, last.id) = "false"

\* C5: the rollback of a toggle on strategy E1 changes only E1's flag: every
\* other entry of the strategies cache, and every other field of E1, is the
\* same before and after, and the order of the entries is kept.
C5_RollbackTouchesOnlyItsEntity ==
  [][last'.op = "rollback" =>
       /\ Len(strategies') = Len(strategies)
       /\ \A j \in DOMAIN strategies :
            IF strategies[j].id = last'.id
            THEN strategies'[j] = [strategies[j] EXCEPT !.enabled = strategies'[j].enabled]
            ELSE strategies'[j] = strategies[j]]_vars

\* a rollback on E1 while a toggle on another strategy E2 is in flight and
\* E2 still shows its speculative value
C5_Witness ==
  /\ last.op = "rollback"
  /\ \E j \in DOMAIN inflight :
       /\ inflight[j].id # last.id
       /\ FlagStr(strategies, inflight[j].id) \notin {"absent", inflight[j].prior}
  /\ FlagStr(strategies, last.id) = last.prior
  /\ last.prior # "absent"

\* ---- toggles made by clicks on the Strategies page
\* the button of row j: handleToggle(strategy.id, strategy.enabled) calls
\* mutate({ id, enabled: !enabled }) with the row as the page renders it
handleToggle(row) == [id |-> row.id, enabled |-> ~row.enabled]

HandleToggle(j) ==
  /\ rendered.mounted
  /\ j \in DOMAIN rendered.data
  /\ Mutate(handleToggle(rendered.data[j]).id, handleToggle(rendered.data[j]).enabled)

InitPage ==
  /\ InitState
  /\ token \in Tokens
  /\ autoReconnect
  /\ topics = LayoutTopics
  /\ cnt = [on |-> FALSE, closes |-> 0, scheds |-> 0, attempts |-> 0]
  /\ rendered = [mounted |-> TRUE, data |-> <<>>]

NextPage ==
  \/ \E j \in 1..MaxCache : HandleToggle(j)
  \/ \E j \in 1..MaxInFlight : MutationSuccess(j)
  \/ \E j \in 1..MaxInFlight : MutationFail(j)
  \/ \E list \in StrategyLists({1}) : FetchStrategies(list)
  \/ \E m \in StrategyUpdatedMsgs([id : Keys, enabled : BOOLEAN]) : HandleEvent(m)

SpecPage == InitPage /\ [][NextPage]_vars

\* C27: when the request {id, enabled} of a toggle succeeds, the flag of
\* that strategy in the cache equals the `enabled` that was sent, whatever
\* the cache held at the call and whatever other toggles are in flight.
C27_SuccessShowsSentValue ==
  [][last'.op = "success" =>
       \E j \in DOMAIN inflight :
          /\ inflight' = RemoveAt(inflight, j)
          /\ FlagStr(strategies', inflight[j].id) =
               (IF inflight[j].enabled THEN "true" ELSE "false")]_vars

\* =================================================================
\* Domain caches under fetches and inbound events
\* =================================================================

TokenEntities == [mint : Keys]
TradeEntities == [id : Keys, status : {"PENDING", "COMPLETED"}]
PositionEntities == [id : Keys]

TokenLists == {l \in SeqsUpTo(TokenEntities, MaxCache) : Distinct(l, "mint")}
TradeLists == {l \in SeqsUpTo(TradeEntities, MaxCache) : Distinct(l, "id")}
PositionLists == {l \in SeqsUpTo(PositionEntities, MaxCache) : Distinct(l, "id")}

\* useTokens' query function, useTokens.ts 14-26: setTokens
FetchTokens(list) ==
  /\ Fits([Caches EXCEPT !.tokens = list])
  /\ tokens' = setTokens(tokens, list)
  /\ emitted' = <<>>
  /\ last' = [op |-> "fetch", cache |-> "tokens"]
  /\ UNCHANGED <<optVars, agentVars, trades, positions, strategies, rqVars,
                 gwVars, disc, cnt>>

\* useTrades' query function, useTrades.ts 14-26: setTrades
FetchTrades(list) ==
  /\ Fits([Caches EXCEPT !.trades = list])
  /\ trades' = setTrades(trades, list)
  /\ emitted' = <<>>
  /\ last' = [op |-> "fetch", cache |-> "trades"]
  /\ UNCHANGED <<optVars, agentVars, tokens, positions, strategies, rqVars,
                 gwVars, disc, cnt>>

\* usePositions' query function, usePositions.ts 11-23: setPositions
FetchPositions(list) ==
  /\ Fits([Caches EXCEPT !.positions = list])
  /\ positions' = setPositions(positions, list)
  /\ emitted' = <<>>
  /\ last' = [op |-> "fetch", cache |-> "positions"]
  /\ UNCHANGED <<optVars, agentVars, tokens, trades, strategies, rqVars,
                 gwVars, disc, cnt>>

Event(kind, d) == [type |-> "event", event |-> kind, data |-> d]

\* the domain events of handleEvent, with payloads over Keys
CacheMsgs ==
  {Event("new_token", d) : d \in TokenEntities}
  \cup {Event("token_update", d) : d \in TokenEntities}
  \cup {Event(k, d) : k \in {"trade_created", "trade_executed"}, d \in TradeEntities}
  \cup {Event("trade_failed", [id |-> k, error_message |-> "slippage"]) : k \in Keys}
  \cup {Event(k, d) : k \in {"position_opened", "position_updated"}, d \in PositionEntities}
  \cup {Event("position_closed", [id |-> k, pnl_usd |-> 1]) : k \in Keys}
  \cup StrategyUpdatedMsgs([id : Keys, enabled : BOOLEAN])

NextCaches ==
  \/ \E list \in TokenLists : FetchTokens(list)
  \/ \E list \in TradeLists : FetchTrades(list)
  \/ \E list \in PositionLists : FetchPositions(list)
  \/ \E list \in StrategyLists({1}) : FetchStrategies(list)
  \/ \E m \in CacheMsgs : HandleEvent(m)

SpecCaches == InitLoggedIn /\ [][NextCaches]_vars

KeysOf(list, key) == [j \in DOMAIN list |-> list[j][key]]
NoDuplicates(q) == \A a, b \in DOMAIN q : a # b => q[a] # q[b]

\* C2: every cache holds at most one entry per key (mint / trade id /
\* position id / strategy id) in every reachable state.
C2_OneEntryPerKey ==
  /\ NoDuplicates(KeysOf(tokens, "mint"))
  /\ NoDuplicates(KeysOf(trades, "id"))
  /\ NoDuplicates(KeysOf(positions, "id"))
  /\ NoDuplicates(KeysOf(strategies, "id"))

\* ---- updates: the stores' update operations called directly, and the
\* update events of handleEvent
CacheKey(cache) == IF cache = "tokens" THEN "mint" ELSE "id"

Partials(cache) ==
  CASE cache = "tokens" -> {[price_usd |-> "0.5"]}
    [] cache = "trades" -> {[status |-> "FAILED"]}
    [] cache = "positions" -> {[pnl_usd |-> 1]}
    [] cache = "strategies" ->
         {[priority |-> p] : p \in Priorities} \cup {[enabled |-> b] : b \in BOOLEAN}

\* the store operation update<Entity>(key, partial) on the caches C
ApplyUpdate(C, cache, k, u) ==
  CASE cache = "tokens" -> [C EXCEPT !.tokens = updateToken(@, k, u)]
    [] cache = "trades" -> [C EXCEPT !.trades = updateTrade(@, k, u)]
    [] cache = "positions" -> [C EXCEPT !.positions = updatePosition(@, k, u)]
    [] cache = "strategies" -> [C EXCEPT !.strategies = updateStrategy(@, k, u)]

CacheNames == {"tokens", "trades", "positions", "strategies"}

\* the cache an update event writes, and the events that update
UpdateEvents ==
  [token_update |-> "tokens", trade_failed |-> "trades",
   position_updated |-> "positions", strategy_updated |-> "strategies"]

\* a component calls update<Entity>(k, u)
StoreUpdate(cache, k, u) ==
  /\ SetCaches(ApplyUpdate(Caches, cache, k, u))
  /\ last' = [op |-> "update", cache |-> cache, key |-> k, partial |-> u, event |-> "none"]
  /\ UNCHANGED <<optVars, agentVars, rqVars, gwVars, disc, cnt>>

\* handleEvent on an update event whose data is the partial u with the key k
UpdateEvent(e, k, u) ==
  LET d == Merge([f \in {CacheKey(UpdateEvents[e])} |-> k], u)
  IN /\ SetCaches(handleEvent(Caches, Event(e, d)))
     /\ last' = [op |-> "update", cache |-> UpdateEvents[e], key |-> k, partial |-> d,
                 event |-> e]
     /\ UNCHANGED <<optVars, agentVars, rqVars, gwVars, disc, cnt>>

NextUpdates ==
  \/ \E list \in TokenLists : FetchTokens(list)
  \/ \E list \in TradeLists : FetchTrades(list)
  \/ \E list \in PositionLists : FetchPositions(list)
  \/ \E list \in StrategyLists(Priorities) : FetchStrategies(list)
  \/ \E cache \in CacheNames, k \in Keys :
        \E u \in Partials(cache) : StoreUpdate(cache, k, u)
  \/ \E e \in DOMAIN UpdateEvents, k \in Keys :
        \E u \in Partials(UpdateEvents[e]) : UpdateEvent(e, k, u)

SpecUpdates == InitLoggedIn /\ [][NextUpdates]_vars

\* whether cache `cache` of C has an entry with key k
HasKey(C, cache, k) ==
  \E j \in DOMAIN C[cache] : C[cache][j][CacheKey(cache)] = k

\* C19: an update (a store's update operation or an update event) whose
\* key is not in the cache leaves all four caches as they were: same size,
\* same entries, same order, and no entry is created.
C19_UnknownKeyNoChange ==
  [][(last'.op = "update" /\ ~HasKey(Caches, last'.cache, last'.key)) =>
        <<tokens, trades, positions, strategies>>' =
        <<tokens, trades, positions, strategies>>]_vars

\* an update for a key the cache does not hold, on a cache that holds
\* another entity
C19_Witness ==
  /\ last.op = "update"
  /\ last.event = "strategy_updated"
  /\ ~HasKey(Caches, last.cache, last.key)
  /\ strategies # <<>>

\* C20: an update is idempotent: in the state an update has produced,
\* applying the same update (the same operation with the same key and
\* partial, or the same event) once more changes none of the four caches.
C20_UpdateIdempotent ==
  last.op = "update" =>
    LET again == IF last.event = "none"
                 THEN ApplyUpdate(Caches, last.cache, last.key, last.partial)
                 ELSE handleEvent(Caches, Event(last.event, last.partial))
    IN <<again.tokens, again.trades, again.positions, again.strategies>> =
       <<tokens, trades, positions, strategies>>

\* a strategy_updated event has changed a priority and the strategies
\* cache was re-sorted: the updated strategy is now first of two
C20_Witness ==
  /\ last.op = "update"
  /\ last.cache = "strategies"
  /\ Len(strategies) = 2
  /\ strategies[1].id = last.key
  /\ strategies[1].priority > strategies[2].priority
  /\ "priority" \in DOMAIN last.partial

\* ---- the trades cache under its events
TradeExecutedData == [id : Keys, status : {"COMPLETED"}, side : {"BUY"}]
TradeFailedPartials ==
  {[error_message |-> "slippage"], [status |-> "FAILED", error_message |-> "slippage"]}

\* handleEvent on an event that adds the entity d
AddEvent(e, d) ==
  /\ Fits(handleEvent(Caches, Event(e, d)))
  /\ SetCaches(handleEvent(Caches, Event(e, d)))
  /\ last' = [op |-> "add", event |-> e, data |-> d]
  /\ UNCHANGED <<optVars, agentVars, rqVars, gwVars, disc, cnt>>

NextTrades ==
  \/ \E list \in TradeLists : FetchTrades(list)
  \/ \E e \in {"trade_created", "trade_executed"}, d \in TradeExecutedData : AddEvent(e, d)
  \/ \E k \in Keys, u \in TradeFailedPartials : UpdateEvent("trade_failed", k, u)

SpecTrades == InitLoggedIn /\ [][NextTrades]_vars

\* C21: a trade_executed event for an id the cache does not hold inserts
\* that one entry at the head; a trade_failed event updates the entries
\* with its id in place: length and order are kept, the fields the event
\* names take its values, every other field and every other entry is kept.
C21_InsertThenUpdateInPlace ==
  [][/\ (last'.op = "add" /\ last'.event = "trade_executed"
          /\ ~HasKey(Caches, "trades", last'.data.id))
         => trades' = <<last'.data>> \o trades
     /\ (last'.op = "update" /\ last'.event = "trade_failed") =>
          /\ Len(trades') = Len(trades)
          /\ \A j \in DOMAIN trades :
               IF trades[j].id = last'.key
               THEN /\ DOMAIN trades'[j] = DOMAIN trades[j] \cup DOMAIN last'.partial
                    /\ \A f \in DOMAIN trades'[j] :
                         trades'[j][f] = IF f \in DOMAIN last'.partial
                                         THEN last'.partial[f] ELSE trades[j][f]
               ELSE trades'[j] = trades[j]]_vars

\* the executed trade k1 sits behind a later one and has been marked
\* failed in place, keeping its side
C21_Witness ==
  /\ last.op = "update"
  /\ last.event = "trade_failed"
  /\ Len(trades) = 2
  /\ trades[2] = [id |-> last.key, status |-> "FAILED", side |-> "BUY",
                  error_message |-> "slippage"]
  /\ trades[1].id # last.key

\* ---- inbound dispatch over every kind of message
\* the messages the gateway sends in its simplified shape (mock-api-server.js
\* 28-31, 41-44, 58-65): a type, a data member and no event member
SimplifiedMsgs ==
  {[type |-> "connection", event |-> "none", data |-> [status |-> "connected"]],
   [type |-> "price_update", event |-> "none", data |-> [symbol |-> "BONK"]],
   [type |-> "echo", event |-> "none", data |-> [type |-> "subscribe"]]}

\* events of WebSocketEvent (types/api.ts) that handleEvent has no case for
UncasedMsgs ==
  {Event("metrics_update", [cpu |-> "1"]), Event("system_status", [status |-> "ok"])}

\* events whose case calls no store
NoticeMsgs ==
  {Event("strategy_triggered", [strategy_name |-> "s"]),
   Event("risk_violation", [message |-> "m"])}
  \cup {Event("risk_alert", [severity |-> v, message |-> "m"]) :
          v \in {"CRITICAL", "WARNING", "INFO"}}

\* event messages that arrive without their data member
NoDataMsgs ==
  {[type |-> "event", event |-> e] : e \in {"token_update", "position_closed"}}

DispatchMsgs ==
  SimplifiedMsgs \cup UncasedMsgs \cup NoticeMsgs \cup NoDataMsgs \cup CacheMsgs

\* ws.onmessage has parsed m and calls handleEvent(m)
Dispatch(m) ==
  /\ Fits(handleEvent(Caches, m))
  /\ SetCaches(handleEvent(Caches, m))
  /\ last' = [op |-> "dispatch", msg |-> m]
  /\ UNCHANGED <<optVars, agentVars, rqVars, gwVars, disc, cnt>>

NextDispatch ==
  \/ \E list \in TokenLists : FetchTokens(list)
  \/ \E list \in TradeLists : FetchTrades(list)
  \/ \E list \in PositionLists : FetchPositions(list)
  \/ \E list \in StrategyLists({1}) : FetchStrategies(list)
  \/ \E m \in DispatchMsgs : Dispatch(m)

SpecDispatch == InitLoggedIn /\ [][NextDispatch]_vars

\* the cache the case of an event kind belongs to; "none" for a kind whose
\* case calls no store
CacheOfKind ==
  [new_token |-> "tokens", token_update |-> "tokens",
   trade_created |-> "trades", trade_executed |-> "trades", trade_failed |-> "trades",
   position_opened |-> "positions", position_updated |-> "positions",
   position_closed |-> "positions",
   strategy_triggered |-> "none", strategy_updated |-> "strategies",
   risk_alert |-> "none", risk_violation |-> "none"]

\* the caches other than `cache`, before and after the step, are equal
OthersKept(cache) ==
  /\ cache # "tokens" => tokens' = tokens
  /\ cache # "trades" => trades' = trades
  /\ cache # "positions" => positions' = positions
  /\ cache # "strategies" => strategies' = strategies

\* C22: dispatching a message whose event kind has no handler (a message
\* without an event field, metrics_update, system_status) leaves the four
\* caches unchanged and emits no notification; dispatching a handled kind
\* changes at most the one cache the kind belongs to.
C22_UnhandledIgnoredHandledOneCache ==
  [][last'.op = "dispatch" =>
       IF last'.msg.event \in DOMAIN CacheOfKind
       THEN OthersKept(CacheOfKind[last'.msg.event])
       ELSE OthersKept("none") /\ emitted' = <<>>]_vars

\* a price_update tick has been dispatched while caches hold entries
C22_Witness ==
  /\ last.op = "dispatch"
  /\ last.msg.type = "price_update"
  /\ tokens # <<>>
  /\ strategies # <<>>
  /\ emitted = <<>>

\* =================================================================
\* Event Gateway: mock-api-server.js
\* =================================================================

Topics == {"tokens", "trades"}
ControlMsgs == [type : {"subscribe", "unsubscribe"}, topics : SUBSET Topics \ {{}}]
TestMsg == [type |-> "test"]
TestMsgs == {TestMsg} \cup {[type |-> "test", n |-> l] : l \in NumberLits}
GatewayFrames == {Garbage} \cup {Parsed(m) : m \in ControlMsgs \cup TestMsgs}
GatewayTokens == Tokens \cup {NoToken, "invalid"}

IsControl(frame) == frame.parse /\ frame.msg \in ControlMsgs

Sent(c, m) == [to |-> c, msg |-> m]

\* The topics the gateway holds for connection c: the connection handler,
\* mock-api-server.js 24-72, keeps `token` and `interval` for a connection
\* and nothing else, and the message handler stores nothing.
Subscriptions(c) == {}

WelcomeMsg == [type |-> "connection"]

\* (mutant) a connection handler that starts with a tick
onConnection_TickFirst(c) == <<Sent(c, [type |-> "price_update"]), Sent(c, WelcomeMsg)>>

\* what the connection handler sends, mock-api-server.js 29-32
onConnection(c) == <<Sent(c, WelcomeMsg)>>

\* wss.on('connection'), mock-api-server.js 24-72: whatever the token query
\* parameter is, the welcome message is sent, then the handlers are
\* installed and the interval is started
Accept(c, tok) ==
  /\ conns[c].state \in {"NONE", "CLOSED"}
  /\ conns' = [conns EXCEPT ![c] = [state |-> "OPEN", interval |-> TRUE]]
  /\ reply' = onConnection(c)
  /\ UNCHANGED apiVars
  /\ last' = [op |-> "accept", conn |-> c, tok |-> tok]
  /\ UNCHANGED <<optVars, agentVars, cacheVars, rqVars, disc, cnt>>

\* what ws.on('message') sends for a frame, mock-api-server.js 35-48:
\* JSON.parse of the text, then JSON.stringify of the echo envelope
onGatewayMessage(c, frame) ==
  IF frame.parse
  THEN <<Sent(c, JSONstringify([type |-> "echo", data |-> JSONparse(frame.msg)]))>>
  ELSE <<>>

Inbound(c, frame) ==
  /\ conns[c].state = "OPEN"
  /\ reply' = onGatewayMessage(c, frame)
  /\ UNCHANGED apiVars
  /\ last' = [op |-> "inbound", conn |-> c, frame |-> frame]
  /\ UNCHANGED <<optVars, agentVars, cacheVars, rqVars, conns, disc, cnt>>

\* what the setInterval callback sends, mock-api-server.js 56-67
onInterval(cs, c) ==
  IF cs[c].state = "OPEN" THEN <<Sent(c, [type |-> "price_update"])>> ELSE <<>>

Tick(c) ==
  /\ conns[c].interval
  /\ reply' = onInterval(conns, c)
  /\ UNCHANGED apiVars
  /\ last' = [op |-> "tick", conn |-> c]
  /\ UNCHANGED <<optVars, agentVars, cacheVars, rqVars, conns, disc, cnt>>

\* the closing handshake has begun (the peer's close frame arrived, or the
\* TCP connection is going down): readyState CLOSING, the 'close' event has
\* not been emitted yet and the interval is still running
GatewayClosing(c) ==
  /\ conns[c].state = "OPEN"
  /\ conns' = [conns EXCEPT ![c].state = "CLOSING"]
  /\ reply' = <<>>
  /\ UNCHANGED apiVars
  /\ last' = [op |-> "gwclosing", conn |-> c]
  /\ UNCHANGED <<optVars, agentVars, cacheVars, rqVars, disc, cnt>>

\* (mutant) a close handler that only logs
onGatewayClose_NoClear(cs, c) == [cs EXCEPT ![c].state = "CLOSED"]

\* the two ws.on('close') handlers, mock-api-server.js 51-53 and 69-71:
\* readyState is CLOSED, clearInterval(interval)
onGatewayClose(cs, c) ==
  [cs EXCEPT ![c] = [state |-> "CLOSED", interval |-> FALSE]]

GatewayClose(c) ==
  /\ conns[c].state \in {"OPEN", "CLOSING"}
  /\ conns' = onGatewayClose(conns, c)
  /\ reply' = <<>>
  /\ UNCHANGED apiVars
  /\ last' = [op |-> "gwclose", conn |-> c]
  /\ UNCHANGED <<optVars, agentVars, cacheVars, rqVars, disc, cnt>>

NextGateway ==
  \/ \E c \in ConnIds, tok \in GatewayTokens : Accept(c, tok)
  \/ \E c \in ConnIds, f \in GatewayFrames : Inbound(c, f)
  \/ \E c \in ConnIds : Tick(c)
  \/ \E c \in ConnIds : GatewayClosing(c)
  \/ \E c \in ConnIds : GatewayClose(c)

SpecGateway == InitLoggedIn /\ [][NextGateway]_vars

\* ---- the agent and the gateway side by side, with frames that cannot
\* be parsed and frames whose handling throws
TokenUpdateNoData == [type |-> "event", event |-> "token_update"]
PositionOpenedMsg(k) ==
  [type |-> "event", event |-> "position_opened", data |-> [id |-> k]]
PositionClosedNoPnl(k) ==
  [type |-> "event", event |-> "position_closed", data |-> [id |-> k]]
ProtocolFrames ==
  {Garbage, Parsed(ConnectionMsg), Parsed(TokenUpdateNoData),
   Parsed(PositionOpenedMsg("k1")), Parsed(PositionClosedNoPnl("k1"))}

NextProtocol ==
  \/ Mount
  \/ \E i \in SockIds : SocketOpen(i)
  \/ \E i \in SockIds, f \in ProtocolFrames : SocketMessage(i, f)
  \/ \E i \in SockIds, e \in BOOLEAN : SocketClose(i, e)
  \/ \E t \in TimerIds : TimerFire(t)
  \/ \E c \in ConnIds, tok \in Tokens : Accept(c, tok)
  \/ \E c \in ConnIds, f \in {Garbage, Parsed(TestMsg)} : Inbound(c, f)
  \/ \E c \in ConnIds : Tick(c)
  \/ \E c \in ConnIds : GatewayClosing(c)
  \/ \E c \in ConnIds : GatewayClose(c)

SpecProtocol == InitLoggedIn /\ [][NextProtocol]_vars

C11_RegistryFollowsControl ==
  (last.op = "inbound" /\ IsControl(last.frame) /\ last.frame.msg.type = "subscribe")
     => last.frame.msg.topics \subseteq Subscriptions(last.conn)

\* C12: a parseable inbound message that is no control message is answered
\* with exactly one message {type: "echo", data: the message, unchanged},
\* sent to the connection it came from.
C12_EchoVerbatim ==
  (last.op = "inbound" /\ last.frame.parse /\ ~IsControl(last.frame))
     => reply = <<Sent(last.conn, [type |-> "echo", data |-> last.frame.msg])>>

\* the number of intervals running and of connections in a set of states
Running(cs) == Cardinality({c \in DOMAIN cs : cs[c].interval})
InState(cs, S) == Cardinality({c \in DOMAIN cs : cs[c].state \in S})

\* C14 as stated: in every reachable state the number of running emitters
\* equals the number of open connections, and no tick is sent on a
\* connection that is not open.
C14_EmittersEqualOpen ==
  /\ Running(conns) = InState(conns, {"OPEN"})
  /\ \A k \in DOMAIN reply :
       reply[k].msg.type = "price_update" => conns[reply[k].to].state = "OPEN"

\* C14 amended: a connection has a running emitter exactly from its accept
\* to its close event (while it is open or closing), so the number of
\* running emitters equals the number of connections accepted and not yet
\* closed; a tick is sent only on an open connection.
C14_EmittersEqualNotClosed ==
  /\ \A c \in ConnIds : conns[c].interval <=> conns[c].state \in {"OPEN", "CLOSING"}
  /\ Running(conns) = InState(conns, {"OPEN", "CLOSING"})
  /\ \A k \in DOMAIN reply :
       reply[k].msg.type = "price_update" => conns[reply[k].to].state = "OPEN"

\* a connection was closed and its timer is gone, while another one is
\* closing and a third one open
C14_Witness ==
  /\ last.op = "gwclose"
  /\ ~conns[last.conn].interval
  /\ \E c \in ConnIds : conns[c].state = "CLOSING" /\ conns[c].interval
  /\ \E c \in ConnIds : conns[c].state = "OPEN"

\* C15: the first message sent on an accepted connection is the
\* connection-established message, whatever its token parameter is: the
\* accept step sends it first, and every other message is sent on a
\* connection that an earlier step accepted.
C15_WelcomeFirst ==
  [][/\ last'.op = "accept" =>
          /\ reply' # <<>>
          /\ reply'[1] = Sent(last'.conn, [type |-> "connection"])
     /\ \A k \in DOMAIN reply' :
          (last' # last /\ conns[reply'[k].to].state \notin {"OPEN"})
             => /\ k = 1
                /\ last'.op = "accept"
                /\ last'.conn = reply'[k].to]_vars

\* a connection with an invalid token has just been accepted, on a slot
\* whose earlier connection was closed
C15_Witness ==
  /\ last.op = "accept"
  /\ last.tok = "invalid"
  /\ reply = <<Sent(last.conn, [type |-> "connection"])>>
  /\ \E c \in ConnIds : conns[c].state = "CLOSED"

\* C10: a recognized control message ({type: subscribe|unsubscribe, topics})
\* produces no reply: the gateway sends nothing in response to it.
C10_NoReplyToControl ==
  (last.op = "inbound" /\ IsControl(last.frame)) => reply = <<>>

\* =================================================================
\* REST routes of the mock API: mock-api-server.js
\* =================================================================

\* the ids of mockPositions and of mockTrades
mockPositions == {"pos1", "pos2"}
mockTrades == <<"trade1", "trade2", "trade3">>

\* `strategy${mockStrategies.length + 1}`
StrategyId(n) ==
  <<"strategy1", "strategy2", "strategy3", "strategy4", "strategy5">>[n]

Ok(data) == [status |-> 200, data |-> data]
NotFound == [status |-> 404, code |-> "NOT_FOUND"]
Invalid(code) == [status |-> 400, code |-> code]

\* mockStrategies.find(s => s.id === id): the index of the first match
Known(ms, id) == \E j \in DOMAIN ms : ms[j].id = id
Find(ms, id) == Min({j \in DOMAIN ms : ms[j].id = id})

\* POST /strategies: `!name || !type` rejects a missing or empty member
strategyCreate(ms, body) ==
  IF \E f \in {"name", "type"} : f \notin DOMAIN body \/ body[f] = ""
  THEN [ms |-> ms, res |-> Invalid("MISSING_FIELD")]
  ELSE LET new == [id |-> StrategyId(Len(ms) + 1), is_active |-> FALSE]
       IN [ms |-> Append(ms, new), res |-> Ok(new)]

\* (mutant) a start route that answers success without looking the id up
strategyStart_NoLookup(ms, id) == [ms |-> ms, res |-> Ok("Strategy started")]

\* POST /strategies/:id/start
strategyStart(ms, id) ==
  IF ~Known(ms, id) THEN [ms |-> ms, res |-> NotFound]
  ELSE [ms |-> [ms EXCEPT ![Find(ms, id)].is_active = TRUE],
        res |-> Ok("Strategy started")]

\* POST /strategies/:id/pause
strategyPause(ms, id) ==
  IF ~Known(ms, id) THEN [ms |-> ms, res |-> NotFound]
  ELSE [ms |-> [ms EXCEPT ![Find(ms, id)].is_active = FALSE],
        res |-> Ok("Strategy paused")]

\* (mutant) a close route that does not track what it has closed
positionClose_NoTracking(cp, id) ==
  IF id \notin mockPositions THEN [cp |-> cp, res |-> NotFound]
  ELSE [cp |-> cp, res |-> Ok("Position closed")]

\* POST /positions/:id/close
positionClose(cp, id) ==
  IF id \notin mockPositions THEN [cp |-> cp, res |-> NotFound]
  ELSE IF id \in cp THEN [cp |-> cp, res |-> Invalid("ALREADY_CLOSED")]
  ELSE [cp |-> cp \cup {id}, res |-> Ok("Position closed")]

\* ---- query strings.  A query parameter reaches the server as text: the
\* decimal form of the number the client put in the URL, or undefined when
\* the URL has no such parameter.
DigitChars == <<"0", "1", "2", "3", "4", "5", "6", "7", "8", "9">>
IsDigit(c) == \E k \in DOMAIN DigitChars : DigitChars[k] = c
DigitVal(c) == (CHOOSE k \in DOMAIN DigitChars : DigitChars[k] = c) - 1

RECURSIVE Decimal(_)
Decimal(n) ==
  IF n < 10 THEN <<DigitChars[n + 1]>>
  ELSE Decimal(n \div 10) \o <<DigitChars[(n % 10) + 1]>>

\* String(n)
ToText(n) == IF n < 0 THEN <<"-">> \o Decimal(-n) ELSE Decimal(n)

Absent == [present |-> FALSE, n |-> 0]
Param(n) == [present |-> TRUE, n |-> n]

\* req.query.<name>, coerced to a string by parseInt
QueryText(p) ==
  IF p.present THEN ToText(p.n) ELSE <<"u", "n", "d", "e", "f", "i", "n", "e", "d">>

RECURSIVE LeadingDigits(_)
LeadingDigits(text) ==
  IF text = <<>> \/ ~IsDigit(Head(text)) THEN <<>>
  ELSE <<Head(text)>> \o LeadingDigits(Tail(text))

RECURSIVE ValueOf(_)
ValueOf(ds) ==
  IF ds = <<>> THEN 0
  ELSE 10 * ValueOf(SubSeq(ds, 1, Len(ds) - 1)) + DigitVal(ds[Len(ds)])

\* parseInt(text): an optional sign and the leading digits; NaN without digits
parseInt(text) ==
  LET signed == text # <<>> /\ Head(text) \in {"-", "+"}
      ds == LeadingDigits(IF signed THEN Tail(text) ELSE text)
  IN IF ds = <<>> THEN [isNaN |-> TRUE]
     ELSE [isNaN |-> FALSE,
           n |-> IF Head(text) = "-" THEN -ValueOf(ds) ELSE ValueOf(ds)]

\* v || d: NaN and 0 are falsy
OrDefault(v, d) == IF v.isNaN \/ v.n = 0 THEN d ELSE v.n

\* GET /trades
tradesList(query) ==
  LET page == OrDefault(parseInt(query.page), 1)
      limit == OrDefault(parseInt(query.limit), 10)
  IN IF page < 1 THEN Invalid("INVALID_PARAMETER")
     ELSE IF limit < 1 \/ limit > 100 THEN Invalid("INVALID_PARAMETER")
     ELSE [status |-> 200,
           data |-> SubSeq(mockTrades, 1, Min({limit, Len(mockTrades)})),
           pagination |-> [total |-> Len(mockTrades), page |-> page, limit |-> limit]]

\* the members the PUT /risk/limits route destructures from the body
NumericFields ==
  {"maxPositionSizeSol", "maxPositionSizePercent", "maxTotalExposureSol",
   "maxPositions", "maxLossPerTradeSol", "maxDailyLossSol", "maxDrawdownPercent"}

\* PUT /risk/limits
riskLimitsPut(body) ==
  IF \E f \in NumericFields \cap DOMAIN body : body[f] <= 0
  THEN Invalid("INVALID_PARAMETER")
  ELSE Ok(body)

\* ---- requests
StrategyBodies == {[name |-> "Test Strategy", type |-> "EarlyBird"], [name |-> ""]}
RequestStrategyIds == {"strategy1", "strategy2", "strategy3", "invalid_id"}
RequestPositionIds == mockPositions \cup {"invalid_id"}
Pages == {Absent} \cup {Param(n) : n \in {-1, 0, 1, 2}}
Limits == {Absent} \cup {Param(n) : n \in {-5, 0, 2, 5, 100, 101}}
\* limits as comprehensive_bug_test.sh 168-169 names them and as the route
\* names them
LimitBodies ==
  UNION {[F -> {-10, 15}] :
           F \in SUBSET {"max_position_size_sol", "max_daily_loss_sol", "maxPositionSizeSol"}}

CreateStrategy(body) ==
  /\ Len(strategyCreate(mockStrategies, body).ms) <= MaxStrategies
  /\ mockStrategies' = strategyCreate(mockStrategies, body).ms
  /\ response' = strategyCreate(mockStrategies, body).res
  /\ last' = [op |-> "create"]
  /\ UNCHANGED <<optVars, agentVars, cacheVars, rqVars, conns, reply,
                 closedPositions, okCloses, disc, cnt>>

StartStrategy(id) ==
  /\ mockStrategies' = strategyStart(mockStrategies, id).ms
  /\ response' = strategyStart(mockStrategies, id).res
  /\ last' = [op |-> "start", id |-> id]
  /\ UNCHANGED <<optVars, agentVars, cacheVars, rqVars, conns, reply,
                 closedPositions, okCloses, disc, cnt>>

PauseStrategy(id) ==
  /\ mockStrategies' = strategyPause(mockStrategies, id).ms
  /\ response' = strategyPause(mockStrategies, id).res
  /\ last' = [op |-> "pause", id |-> id]
  /\ UNCHANGED <<optVars, agentVars, cacheVars, rqVars, conns, reply,
                 closedPositions, okCloses, disc, cnt>>

ClosePosition(id) ==
  /\ closedPositions' = positionClose(closedPositions, id).cp
  /\ response' = positionClose(closedPositions, id).res
  /\ okCloses' = [okCloses EXCEPT
                    ![id] = @ + (IF response'.status = 200 THEN 1 ELSE 0)]
  /\ last' = [op |-> "close", id |-> id]
  /\ UNCHANGED <<optVars, agentVars, cacheVars, rqVars, conns, reply,
                 mockStrategies, disc, cnt>>

GetTrades(page, limit) ==
  /\ response' = tradesList([page |-> QueryText(page), limit |-> QueryText(limit)])
  /\ last' = [op |-> "trades", page |-> page, limit |-> limit]
  /\ UNCHANGED <<optVars, agentVars, cacheVars, rqVars, conns, reply,
                 mockStrategies, closedPositions, okCloses, disc, cnt>>

PutRiskLimits(body) ==
  /\ response' = riskLimitsPut(body)
  /\ last' = [op |-> "limits", body |-> body]
  /\ UNCHANGED <<optVars, agentVars, cacheVars, rqVars, conns, reply,
                 mockStrategies, closedPositions, okCloses, disc, cnt>>

NextApi ==
  \/ \E body \in StrategyBodies : CreateStrategy(body)
  \/ \E id \in RequestStrategyIds : StartStrategy(id)
  \/ \E id \in RequestStrategyIds : PauseStrategy(id)
  \/ \E id \in RequestPositionIds : ClosePosition(id)
  \/ \E page \in Pages, limit \in Limits : GetTrades(page, limit)
  \/ \E body \in LimitBodies : PutRiskLimits(body)

SpecApi == InitLoggedIn /\ [][NextApi]_vars

\* C23: a start/pause request for an unknown strategy id answers 404
\* NOT_FOUND and changes no is_active flag; for a known id it answers 200
\* and sets that strategy's is_active to true (start) or false (pause) and
\* nothing else, and the same request once more changes nothing.
C23_StartPauseOnlyItsStrategy ==
  [][last'.op \in {"start", "pause"} =>
       IF ~Known(mockStrategies, last'.id)
       THEN /\ response' = NotFound
            /\ mockStrategies' = mockStrategies
       ELSE /\ response'.status = 200
            /\ Len(mockStrategies') = Len(mockStrategies)
            /\ \A j \in DOMAIN mockStrategies :
                 mockStrategies'[j] =
                   IF mockStrategies[j].id = last'.id
                   THEN [mockStrategies[j] EXCEPT !.is_active = (last'.op = "start")]
                   ELSE mockStrategies[j]
            /\ LET again == IF last'.op = "start"
                            THEN strategyStart(mockStrategies', last'.id)
                            ELSE strategyPause(mockStrategies', last'.id)
               IN again.ms = mockStrategies' /\ again.res = response']_vars

\* the created strategy3 was started, then strategy1 paused: 200, and the
\* other two are still active
C23_Witness ==
  /\ last = [op |-> "pause", id |-> "strategy1"]
  /\ response.status = 200
  /\ Len(mockStrategies) = 3
  /\ ~mockStrategies[1].is_active
  /\ mockStrategies[2].is_active
  /\ mockStrategies[3].is_active

\* C24: over every sequence of close requests each position id gets at
\* most one 200; a close of an id that has had its 200 answers 400
\* ALREADY_CLOSED; a close of an unknown id answers 404 and does not mark
\* the id closed.
C24_CloseAtMostOnce ==
  [][/\ \A id \in mockPositions : okCloses'[id] <= 1
     /\ last'.op = "close" =>
          /\ okCloses[last'.id] >= 1 => response' = Invalid("ALREADY_CLOSED")
          /\ last'.id \notin mockPositions =>
               /\ response'.status = 404
               /\ last'.id \notin closedPositions']_vars

\* pos1 was closed and its second close was refused, pos2 is still open
C24_Witness ==
  /\ last = [op |-> "close", id |-> "pos1"]
  /\ response = Invalid("ALREADY_CLOSED")
  /\ okCloses["pos1"] = 1
  /\ closedPositions = {"pos1"}

\* C25: GET /trades with a page parameter below 1, or a limit parameter
\* below 1 (limit=0 included) or above 100, answers 400 INVALID_PARAMETER;
\* every other request answers 200 with at most `limit` trades.
C25_PaginationValidated ==
  last.op = "trades" =>
    IF \/ last.page.present /\ last.page.n < 1
       \/ last.limit.present /\ (last.limit.n < 1 \/ last.limit.n > 100)
    THEN response = Invalid("INVALID_PARAMETER")
    ELSE /\ response.status = 200
         /\ Len(response.data) <= (IF last.limit.present THEN last.limit.n ELSE 10)

\* C26: PUT /risk/limits with a body that carries a non-positive value for
\* a limit answers 400; it answers 200 with the body echoed only when every
\* value supplied is positive.
C26_NonPositiveLimitRejected ==
  last.op = "limits" =>
    IF \E f \in DOMAIN last.body : last.body[f] <= 0
    THEN response.status = 400
    ELSE response = Ok(last.body)

\* =================================================================
\* Claims about the Client Sync Agent
\* =================================================================

\* C1: once disconnect() has been called (and connect() has not been called
\* again by the effect or the user), no step creates a new transport: no
\* reconnect timer connects, also not after the close event that
\* disconnect()'s own close() produces.
C1_NoTransportAfterDisconnect ==
  [][(disc /\ disc') => Created(Agent, Agent') = {}]_vars

\* C7: after disconnect() has returned (and connect() has not been called
\* again), no step changes a domain cache: no inbound event is dispatched.
C7_NoDispatchAfterDisconnect ==
  [][(disc /\ disc') =>
       <<tokens, trades, positions, strategies>>' = <<tokens, trades, positions, strategies>>]_vars

\* C8: at most one reconnect timer is pending and it is the one
\* reconnectTimeout.current names (the one disconnect() would cancel); at
\* most one transport is connecting or open.
C8_OneTimerOneTransport ==
  /\ Cardinality(PendingTimers(Agent)) <= 1
  /\ PendingTimers(Agent) \subseteq {reconnectTimeout}
  /\ Cardinality(LiveSocks(Agent)) <= 1

C9_EventuallyConnected ==
  (wsCurrent # NullRef /\ ~isConnected) ~> isConnected

C9_Witness ==
  /\ isConnected
  /\ last.op = "open"
  /\ reconnectTimeout = StaleHandle

\* =================================================================
\* The hook as Layout mounts it: renders and the effect
\* =================================================================

\* what a render of the hook reads: its two useState values and the stores
\* it subscribes to (useWebSocket.ts 26-34)
Snapshot ==
  [isConnected |-> isConnected, lastMessage |-> lastMessage, tokens |-> tokens,
   trades |-> trades, positions |-> positions, strategies |-> strategies]

\* the effect of useWebSocket.ts 203-209 when its dependency `connect` has
\* changed: the cleanup calls disconnect(), then the new connect() runs
effect(A, tok) == connect(disconnect(A), tok)

\* Layout renders again because state it reads has changed.  It passes a
\* new topics array (Layout.tsx 13-16), so useCallback returns a new
\* connect (its dependencies, useWebSocket.ts 100) and the effect runs again.
\* (A message equal to the last one is a new object and renders too; that
\* render is not modelled.)
Render ==
  /\ last.op # "init"
  /\ seen # Snapshot
  /\ CanConnect(disconnect(Agent), token)
  /\ seen' = Snapshot
  /\ SetAgent(effect(Agent, token))
  /\ last' = [op |-> "render"]
  /\ UNCHANGED <<token, autoReconnect, topics, cacheVars, rqVars, gwVars, disc, cnt>>

\* useAuthStore.logout(), uiStore.ts 168-175: the token is null, the hook
\* renders with it, connect changes and the effect runs again
Logout ==
  /\ last.op # "init"
  /\ token # NoToken
  /\ token' = NoToken
  /\ seen' = Snapshot
  /\ SetAgent(effect(Agent, NoToken))
  /\ last' = [op |-> "logout"]
  /\ UNCHANGED <<autoReconnect, topics, cacheVars, rqVars, gwVars, disc, cnt>>

\* frames that change what a render reads: lastMessage, and the token store
LayoutFrames == {Parsed(ConnectionMsg), Parsed(NewTokenMsg("k1"))}

NextLayout ==
  \/ Mount
  \/ Render
  \/ Logout
  \/ \E i \in SockIds : SocketOpen(i)
  \/ \E i \in SockIds, f \in LayoutFrames : SocketMessage(i, f)
  \/ \E i \in SockIds, e \in BOOLEAN : SocketClose(i, e)
  \/ \E t \in TimerIds : TimerFire(t)

SpecLayout == InitLoggedIn /\ [][NextLayout]_vars

\* C28: once the current transport is open, the agent closes it only on a
\* transport close or error, a credential change or a disconnect() call of
\* its user; a render caused by the agent's own state updates or by a store
\* update never tears the connection down.
C28_RenderKeepsConnection ==
  [][(/\ wsCurrent # NullRef
      /\ socks[wsCurrent].state = "OPEN"
      /\ socks'[wsCurrent].state # "OPEN")
       => last'.op \in {"close", "logout", "disconnect"}]_vars

\* C30: in every state after the token has been cleared the agent creates
\* no transport: no handler or timer from before the logout connects with
\* the token it captured.
C30_NoConnectAfterLogout ==
  [][token = NoToken => Created(Agent, Agent') = {}]_vars

\* no open or close event of a transport is still to be delivered
NoEventWaiting == \A i \in SockIds : socks[i].state \notin {"CONNECTING", "CLOSING"}

\* C29: in every state where no transport event is waiting to be
\* delivered, isConnected is true exactly when the current transport
\* (ws.current) is open.
C29_IndicatorMatchesTransport ==
  NoEventWaiting =>
    (isConnected <=> (wsCurrent # NullRef /\ socks[wsCurrent].state = "OPEN"))

====
